---- MODULE Spec2Model ----
(***************************************************************************)
(* Book routes of the catalogue service (src/routes/book.route.js) over    *)
(* the Book collection (src/models/book.model.js).                         *)
(*                                                                         *)
(* Texts are TLA+ strings.  A request field that is absent is a key that   *)
(* is missing from the record that carries it.  An identifier sent by a    *)
(* client is [oid |-> n] when it is the 24-hex text of ObjectId n and      *)
(* [raw |-> t] when it is any other text t.  A page parameter is           *)
(* [num |-> k] when its text denotes the number k and [raw |-> t] when it  *)
(* denotes no number.  A stored date is a day number.                      *)
(***************************************************************************)
EXTENDS Integers, Sequences, FiniteSets, TLC

VARIABLES
    books,       \* the Book collection, in the store's natural order
    oidCounter,  \* the next ObjectId the driver generates
    req,         \* the request handled last
    res          \* the responses sent for it, in order

vars == <<books, oidCounter, req, res>>

-----------------------------------------------------------------------------
(* Bounds *)

\* ObjectIds generated in a run of Spec
MaxOid == 2
\* ObjectIds generated in a run of SpecPaging
MaxPagingOid == 5
\* largest page number requested
MaxPage == 3

-----------------------------------------------------------------------------
(* Values *)

perPage == 4

Null == [null |-> TRUE]

Fields == {"title", "author", "isbn", "description", "publishedDate"}

Has(r, f) == f \in DOMAIN r

\* JavaScript truthiness of a text field of a request: present and not ""
Truthy(r, f) == Has(r, f) /\ r[f] # ""

\* the characters of the texts that are searched or searched for
Chars(t) ==
    CASE t = "" -> <<>>
      [] t = "Ab" -> <<"A", "b">>
      [] t = "Ba" -> <<"B", "a">>
      [] t = "c" -> <<"c">>
      [] t = "d" -> <<"d">>
      [] t = "a" -> <<"a">>
      [] t = "B" -> <<"B">>
      [] t = "ab" -> <<"a", "b">>
      [] t = "." -> <<".">>
      [] t = "A." -> <<"A", ".">>
      [] t = "(" -> <<"(">>

Lower(c) ==
    CASE c = "A" -> "a"
      [] c = "B" -> "b"
      [] OTHER -> c

\* Date cast of the schema: the day a text denotes, or a cast failure
CastDate(t) ==
    CASE t = "2023-01-01" -> [ok |-> TRUE, day |-> 19358]
      [] t = "2023-01-01T00:00:00.000Z" -> [ok |-> TRUE, day |-> 19358]
      [] t = "2023-03-01" -> [ok |-> TRUE, day |-> 19417]
      [] OTHER -> [ok |-> FALSE]

-----------------------------------------------------------------------------
(* The Book collection *)

IdsOf(s) == {s[i].id : i \in 1..Len(s)}

\* position of the document with ObjectId n, 0 when there is none
IndexOf(s, n) ==
    IF n \in IdsOf(s) THEN CHOOSE i \in 1..Len(s) : s[i].id = n ELSE 0

\* ObjectId cast of an identifier text
IsObjectId(id) == Has(id, "oid")

\* schema validation run by save(): every path is required, a required text
\* is not "", and publishedDate casts to a date
SchemaInvalid(body) ==
    \/ \E f \in Fields : ~Truthy(body, f)
    \/ ~CastDate(body.publishedDate).ok

\* the document new BookModel({...}) builds from a body that validates
BookModel(oid, body) ==
    [id |-> oid,
     title |-> body.title,
     author |-> body.author,
     isbn |-> body.isbn,
     description |-> body.description,
     publishedDate |-> CastDate(body.publishedDate).day]

\* cast of an update document: only publishedDate can fail for text values
UpdateCastError(body) ==
    Has(body, "publishedDate") /\ ~CastDate(body.publishedDate).ok

\* $set of the fields the body names, the others kept
ApplyUpdate(doc, body) ==
    [f \in DOMAIN doc |->
        IF f \in Fields /\ Has(body, f)
        THEN IF f = "publishedDate" THEN CastDate(body[f]).day ELSE body[f]
        ELSE doc[f]]

Remove(s, i) == SubSeq(s, 1, i - 1) \o SubSeq(s, i + 1, Len(s))

\* new RegExp(query, "i"): an unterminated group is a SyntaxError
RegExpSyntaxError(query) == \E j \in 1..Len(Chars(query)) : Chars(query)[j] = "("

\* searchRegex matches somewhere in text: "." matches any character, every
\* other character matches itself in either case
RegExpTest(query, text) ==
    LET p == Chars(query)
        t == Chars(text)
    IN \E i \in 0..(Len(t) - Len(p)) :
          \A j \in 1..Len(p) : p[j] = "." \/ Lower(p[j]) = Lower(t[i + j])

Min(a, b) == IF a < b THEN a ELSE b

-----------------------------------------------------------------------------
(* Handlers: what a handler leaves behind, and the responses it sends *)

Result(s, n, out) == [books |-> s, oidCounter |-> n, res |-> out]

InternalError500 == [status |-> 500, message |-> "Internal server error"]

\* the catch blocks of the GET, PUT and DELETE handlers
InternalError == [status |-> 400, message |-> "Internal server error"]

RequiredMissingIsbnForgotten(body) ==
    ~Truthy(body, "title") \/ ~Truthy(body, "author") \/ ~Truthy(body, "publishedDate")

\* !title || !author || !isbn || !publishedDate
RequiredMissing(body) ==
    ~Truthy(body, "title") \/ ~Truthy(body, "author")
       \/ ~Truthy(body, "isbn") \/ ~Truthy(body, "publishedDate")

SaveSkipped(s, doc) == s

\* newBook.save() of a document that validates: inserted after the others
Save(s, doc) == Append(s, doc)

NewObjectIdFromCount(s, n) == Len(s) + 1

\* the _id new BookModel() generates: the driver's next ObjectId
NewObjectId(s, n) == n

CreateHandler(s, n, body) ==
    IF RequiredMissing(body)
    THEN Result(s, n, <<[status |-> 400, message |-> "All fields are required"]>>)
    ELSE LET newBook == BookModel(NewObjectId(s, n), body) IN
         IF SchemaInvalid(body)
         THEN Result(s, n + 1, <<[status |-> 400, message |-> "Book validation failed"]>>)
         ELSE Result(Save(s, newBook), n + 1,
                     <<[status |-> 201, message |-> "Book created", book |-> newBook]>>)

SkipFromPage(params) ==
    IF Has(params, "page") /\ Has(params.page, "num")
    THEN [nan |-> FALSE, n |-> params.page.num * perPage]
    ELSE [nan |-> TRUE]

\* (page - 1) * perPage; NaN when page is absent or denotes no number
Skip(params) ==
    IF Has(params, "page") /\ Has(params.page, "num")
    THEN [nan |-> FALSE, n |-> (params.page.num - 1) * perPage]
    ELSE [nan |-> TRUE]

ModeQueryFirst(params) ==
    IF Truthy(params, "query") THEN "query"
    ELSE IF Has(params, "id") /\ params.id # [raw |-> ""] THEN "id"
    ELSE "page"

\* if (id) ... else if (query) ... else ...
Mode(params) ==
    IF Has(params, "id") /\ params.id # [raw |-> ""] THEN "id"
    ELSE IF Truthy(params, "query") THEN "query"
    ELSE "page"

\* what the store may do with a skip: it applies a number >= 0; one that is
\* NaN or negative it either rejects or takes for 0
SkipOutcomes(skip) ==
    IF skip.nan \/ skip.n < 0 THEN {"reject", "zero"} ELSE {"skip"}

GetHandler(s, n, params, outcome) ==
    LET skip == Skip(params) IN
    IF Mode(params) = "id"
    THEN IF ~IsObjectId(params.id)
         THEN Result(s, n, <<InternalError>>)
         ELSE IF IndexOf(s, params.id.oid) = 0
         THEN Result(s, n, <<[status |-> 400, message |-> "Book Not Found"]>>)
         ELSE Result(s, n,
                     <<[status |-> 200, book |-> s[IndexOf(s, params.id.oid)]]>>)
    ELSE IF Mode(params) = "query"
    THEN IF RegExpSyntaxError(params.query)
         THEN Result(s, n, <<InternalError>>)
         ELSE LET match(b) == RegExpTest(params.query, b.title)
                                 \/ RegExpTest(params.query, b.author)
              IN Result(s, n, <<[status |-> 200, books |-> SelectSeq(s, match)]>>)
    ELSE IF outcome # "skip"
    THEN IF outcome = "reject"
         THEN Result(s, n, <<InternalError>>)
         ELSE Result(s, n,
                     <<[status |-> 200, books |-> SubSeq(s, 1, Min(perPage, Len(s)))]>>)
    ELSE Result(s, n,
                <<[status |-> 200,
                   books |-> SubSeq(s, skip.n + 1, Min(skip.n + perPage, Len(s)))]>>)

ReturnedBefore(before, after) == before

\* { new: true }: findByIdAndUpdate resolves to the document after the update
Returned(before, after) == after

PutHandlerUpsert(s, n, id, body) ==
    IF ~IsObjectId(id) \/ UpdateCastError(body)
    THEN Result(s, n, <<InternalError>>)
    ELSE IF IndexOf(s, id.oid) = 0
    THEN LET inserted == ApplyUpdate([f \in {"id"} \cup (DOMAIN body \cap Fields) |-> id.oid],
                                     body)
         IN Result(Append(s, inserted), n,
                   <<[status |-> 200, message |-> "Book updated", book |-> inserted]>>)
    ELSE LET i == IndexOf(s, id.oid)
             after == ApplyUpdate(s[i], body)
         IN Result([s EXCEPT ![i] = after], n,
                   <<[status |-> 200, message |-> "Book updated",
                      book |-> Returned(s[i], after)]>>)

PutHandler(s, n, id, body) ==
    IF ~IsObjectId(id) \/ UpdateCastError(body)
    THEN Result(s, n, <<InternalError>>)
    ELSE IF IndexOf(s, id.oid) = 0
    THEN Result(s, n,
                <<[status |-> 200, message |-> "Book updated", book |-> Null]>>)
    ELSE LET i == IndexOf(s, id.oid)
             after == ApplyUpdate(s[i], body)
             updatedBook == Returned(s[i], after)
         IN Result([s EXCEPT ![i] = after], n,
                   <<[status |-> 200, message |-> "Book updated", book |-> updatedBook]>>)

DeleteHandler(s, n, id) ==
    IF ~IsObjectId(id)
    THEN Result(s, n, <<InternalError>>)
    ELSE IF IndexOf(s, id.oid) = 0
    THEN Result(s, n,
                <<[status |-> 200, message |-> "Book deleted", book |-> Null]>>)
    ELSE LET i == IndexOf(s, id.oid)
         IN Result(Remove(s, i), n,
                   <<[status |-> 200, message |-> "Book deleted", book |-> s[i]]>>)

-----------------------------------------------------------------------------
(* Requests *)

Tokens == {"valid", "expired", "none"}

\* the token verifier lets a request through only with a valid token
VerifyToken(token) == token = "valid"

Unauthorized == [status |-> 401, message |-> "Unauthorized"]

Without(r, f) == [g \in DOMAIN r \ {f} |-> r[g]]

SampleBook ==
    [title |-> "Ab", author |-> "d", isbn |-> "1", description |-> "x",
     publishedDate |-> "2023-01-01"]

OtherBook ==
    [title |-> "c", author |-> "Ba", isbn |-> "1", description |-> "x",
     publishedDate |-> "2023-03-01"]

CreateBodies ==
    {SampleBook, OtherBook,
     [SampleBook EXCEPT !.publishedDate = "2023-01-01T00:00:00.000Z"],
     [SampleBook EXCEPT !.publishedDate = "notadate"],
     [SampleBook EXCEPT !.author = ""],
     [SampleBook EXCEPT !.description = ""],
     Without(SampleBook, "title"), Without(SampleBook, "isbn"),
     Without(SampleBook, "publishedDate"), Without(SampleBook, "description"),
     Without(SampleBook, "description") @@ [extra |-> "x"]}

PagingBodies == {SampleBook, OtherBook, Without(SampleBook, "title")}

UpdateBodies ==
    {[title |-> "c"],
     [author |-> "Ba", publishedDate |-> "2023-03-01"],
     [title |-> ""],
     [publishedDate |-> "notadate"],
     [title |-> "Ab", publishedDate |-> "notadate"],
     <<>>}

PathIds(maxOid) == {[oid |-> k] : k \in 1..(maxOid + 1)} \cup {[raw |-> "invalid_id"]}

Queries == {"a", "B", "ab", "c", ".", "A.", "("}

Pages == {[num |-> k] : k \in 0..MaxPage} \cup {[raw |-> "abc"]}

GetParams(maxOid) ==
    {[id |-> i] : i \in PathIds(maxOid) \cup {[raw |-> ""]}}
    \cup {[id |-> i, query |-> "a", page |-> [num |-> 1]] : i \in PathIds(1)}
    \cup {[id |-> [raw |-> ""], query |-> "a"]}
    \cup {[query |-> q] : q \in Queries}
    \cup {[query |-> q, page |-> [num |-> 2]] : q \in {"a", "."}}
    \cup {[query |-> "", page |-> p] : p \in Pages}
    \cup {[page |-> p] : p \in Pages}
    \cup {<<>>}

-----------------------------------------------------------------------------
(* Routes: verifyToken, then the handler *)

Respond(r) ==
    /\ books' = r.books
    /\ oidCounter' = r.oidCounter
    /\ res' = r.res

Reject ==
    /\ res' = <<Unauthorized>>
    /\ UNCHANGED <<books, oidCounter>>

Post(bodies, maxOid) ==
    \E token \in Tokens, body \in bodies :
        /\ oidCounter <= maxOid
        /\ req' = [method |-> "POST", token |-> token, body |-> body]
        /\ IF VerifyToken(token)
           THEN Respond(CreateHandler(books, oidCounter, body))
           ELSE Reject

Get(maxOid) ==
    \E token \in Tokens, params \in GetParams(maxOid) :
      \E outcome \in SkipOutcomes(Skip(params)) :
        /\ req' = [method |-> "GET", token |-> token, query |-> params]
        /\ IF VerifyToken(token)
           THEN Respond(GetHandler(books, oidCounter, params, outcome))
           ELSE Reject

PutUnverified(maxOid) ==
    \E token \in Tokens, id \in PathIds(maxOid), body \in UpdateBodies :
        /\ req' = [method |-> "PUT", token |-> token, id |-> id, body |-> body]
        /\ Respond(PutHandler(books, oidCounter, id, body))

Put(maxOid) ==
    \E token \in Tokens, id \in PathIds(maxOid), body \in UpdateBodies :
        /\ req' = [method |-> "PUT", token |-> token, id |-> id, body |-> body]
        /\ IF VerifyToken(token)
           THEN Respond(PutHandler(books, oidCounter, id, body))
           ELSE Reject

Delete(maxOid) ==
    \E token \in Tokens, id \in PathIds(maxOid) :
        /\ req' = [method |-> "DELETE", token |-> token, id |-> id]
        /\ IF VerifyToken(token)
           THEN Respond(DeleteHandler(books, oidCounter, id))
           ELSE Reject

PostBooks == Post(CreateBodies, MaxOid)
GetBooks == Get(MaxOid)
PutBook == Put(MaxOid)
DeleteBook == Delete(MaxOid)

PostBooksPaging == Post(PagingBodies, MaxPagingOid)
GetBooksPaging == Get(MaxPagingOid)
DeleteBookPaging == Delete(MaxPagingOid)

Init ==
    /\ books = <<>>
    /\ oidCounter = 1
    /\ req = [method |-> "NONE", token |-> "none"]
    /\ res = <<>>

Next == PostBooks \/ GetBooks \/ PutBook \/ DeleteBook

Spec == Init /\ [][Next]_vars

NextPaging == PostBooksPaging \/ GetBooksPaging \/ DeleteBookPaging

SpecPaging == Init /\ [][NextPaging]_vars

-----------------------------------------------------------------------------
(* Vocabulary of the properties *)

Authenticated(r) == r.method # "NONE" /\ r.token = "valid"

IdGiven(params) == Has(params, "id") /\ params.id # [raw |-> ""]

QueryGiven(params) == Has(params, "query") /\ params.query # ""

RequiredAtCreate == {"title", "author", "isbn", "publishedDate"}

AbsentOrEmpty(body, f) == ~Has(body, f) \/ body[f] = ""

DenotesDate(t) == CastDate(t).ok

\* every field value of the body is one the schema can cast
Casts(body) == Has(body, "publishedDate") => DenotesDate(body.publishedDate)

\* the stored value of field f for the input text v
Stored(f, v) == IF f = "publishedDate" THEN CastDate(v).day ELSE v

\* text contains q as a substring, letter case ignored
ContainsIgnoreCase(text, q) ==
    LET t == Chars(text)
        p == Chars(q)
    IN \E i \in 0..(Len(t) - Len(p)) :
          \A j \in 1..Len(p) : Lower(p[j]) = Lower(t[i + j])

-----------------------------------------------------------------------------
(* C1 *)

\* C1: an authenticated Create in which title, author, isbn or publishedDate
\* is absent or empty is answered 400 "All fields are required" and adds no
\* record.
C1_MissingFieldRejected ==
    [][(/\ req'.method = "POST"
        /\ Authenticated(req')
        /\ \E f \in RequiredAtCreate : AbsentOrEmpty(req'.body, f))
       => (/\ res' = <<[status |-> 400, message |-> "All fields are required"]>>
           /\ books' = books)]_vars

C1_Witness ==
    /\ req.method = "POST"
    /\ Authenticated(req)
    /\ AbsentOrEmpty(req.body, "isbn")
    /\ \A f \in RequiredAtCreate \ {"isbn"} : ~AbsentOrEmpty(req.body, f)
    /\ res = <<[status |-> 400, message |-> "All fields are required"]>>
    /\ Len(books) = 1

-----------------------------------------------------------------------------
(* C2 *)

\* C2 as stated: an authenticated Create with every required field present
\* and non-empty is answered 201.
C2_Original ==
    [][(/\ req'.method = "POST"
        /\ Authenticated(req')
        /\ \A f \in Fields : ~AbsentOrEmpty(req'.body, f))
       => (Len(res') = 1 /\ res'[1].status = 201)]_vars

\* C2 (amended): an authenticated Create with all five fields present and
\* non-empty and a publishedDate that denotes a date is answered 201 with a
\* record whose fields are the input's (publishedDate as the date it denotes);
\* the store holds exactly that one record more, at the end, under an
\* identifier no stored record has, and every earlier record is unchanged.
C2_CreateAddsRecord ==
    [][(/\ req'.method = "POST"
        /\ Authenticated(req')
        /\ \A f \in Fields : ~AbsentOrEmpty(req'.body, f)
        /\ DenotesDate(req'.body.publishedDate))
       => (/\ Len(res') = 1
           /\ res'[1].status = 201
           /\ res'[1].message = "Book created"
           /\ \A f \in Fields : res'[1].book[f] = Stored(f, req'.body[f])
           /\ res'[1].book.id \notin IdsOf(books)
           /\ Len(books') = Len(books) + 1
           /\ books'[Len(books')] = res'[1].book
           /\ \A i \in 1..Len(books) : books'[i] = books[i])]_vars

C2_Witness ==
    /\ req.method = "POST"
    /\ Authenticated(req)
    /\ Has(req.body, "publishedDate")
    /\ req.body.publishedDate = "2023-01-01T00:00:00.000Z"
    /\ Len(res) = 1
    /\ res[1].status = 201
    /\ Len(books) = 2
    /\ books[2] = res[1].book
    /\ books[2].publishedDate = books[1].publishedDate

-----------------------------------------------------------------------------
(* C3 *)

-----------------------------------------------------------------------------
(* C4 *)

-----------------------------------------------------------------------------
(* C5 *)

\* C5 as stated: an authenticated Update of a stored id is answered 200.
C5_Original ==
    [][(/\ req'.method = "PUT"
        /\ Authenticated(req')
        /\ IsObjectId(req'.id)
        /\ req'.id.oid \in IdsOf(books))
       => (Len(res') = 1 /\ res'[1].status = 200)]_vars

UpdatesStored(r, s) ==
    /\ r.method = "PUT"
    /\ Authenticated(r)
    /\ IsObjectId(r.id)
    /\ r.id.oid \in IdsOf(s)
    /\ Casts(r.body)

\* C5 (amended): an authenticated Update of a stored id whose field values
\* the schema can cast is answered 200 "Book updated" with the record after
\* the update; the record holds the body's values in the fields the body
\* names and its previous values in the others; no other record changes; a
\* fetch-by-id that follows returns those values; and the same Update applied
\* again leaves the store as it is.
C5_UpdatePersists ==
    [][/\ UpdatesStored(req', books)
          => (/\ Len(books') = Len(books)
              /\ \E i \in 1..Len(books) :
                    /\ books[i].id = req'.id.oid
                    /\ books'[i].id = books[i].id
                    /\ \A f \in Fields :
                          books'[i][f] = IF Has(req'.body, f)
                                         THEN Stored(f, req'.body[f])
                                         ELSE books[i][f]
                    /\ \A j \in 1..Len(books) : j # i => books'[j] = books[j]
                    /\ res' = <<[status |-> 200, message |-> "Book updated",
                                 book |-> books'[i]]>>)
       /\ (/\ UpdatesStored(req, books)
           /\ req'.method = "GET"
           /\ Authenticated(req')
           /\ IdGiven(req'.query)
           /\ req'.query.id = req.id)
          => (/\ Len(res') = 1
              /\ res'[1].status = 200
              /\ \A f \in Fields :
                    Has(req.body, f) => res'[1].book[f] = Stored(f, req.body[f]))
       /\ (UpdatesStored(req, books) /\ req' = req) => books' = books]_vars

C5_Witness ==
    /\ req.method = "PUT"
    /\ Authenticated(req)
    /\ req.body = [author |-> "Ba", publishedDate |-> "2023-03-01"]
    /\ Len(books) = 2
    /\ res = <<[status |-> 200, message |-> "Book updated", book |-> books[1]]>>
    /\ books[1].title = "Ab"
    /\ books[1].author = "Ba"
    /\ books[2].author = "d"

-----------------------------------------------------------------------------
(* C6 *)

\* C6: an authenticated GET with neither id nor query and a page that
\* denotes a number p >= 1 is answered 200 with the records at positions
\* (p-1)*4+1 .. min(p*4, N) of the store's order, N the number stored: at
\* most 4 records, exactly 4 on page 1 of more than 4, none past the end, and
\* no record of any other position.
C6_Pagination ==
    (/\ req.method = "GET"
     /\ Authenticated(req)
     /\ ~IdGiven(req.query)
     /\ ~QueryGiven(req.query)
     /\ Has(req.query, "page")
     /\ Has(req.query.page, "num")
     /\ req.query.page.num >= 1)
    => LET p == req.query.page.num
           N == Len(books)
           first == (p - 1) * 4 + 1
           last == IF p * 4 < N THEN p * 4 ELSE N
       IN /\ Len(res) = 1
          /\ res[1].status = 200
          /\ DOMAIN res[1] = {"status", "books"}
          /\ Len(res[1].books) = (IF last >= first THEN last - first + 1 ELSE 0)
          /\ \A j \in 1..Len(res[1].books) : res[1].books[j] = books[first + j - 1]
          /\ \A i \in 1..N :
                (i < first \/ i > last) => books[i].id \notin IdsOf(res[1].books)
          /\ (p = 1 /\ N > 4) => Len(res[1].books) = 4

C6_Witness ==
    /\ req.method = "GET"
    /\ Authenticated(req)
    /\ DOMAIN req.query = {"page"}
    /\ req.query.page = [num |-> 2]
    /\ Len(books) = 5
    /\ res = <<[status |-> 200, books |-> <<books[5]>>]>>

-----------------------------------------------------------------------------
(* C7 *)

\* C7: a request to any book endpoint without a valid token is answered with
\* the authentication failure alone: the store is unchanged and the response
\* carries no book data, whatever the body, query or id.
C7_TokenRequired ==
    [][(req'.token # "valid")
       => (/\ books' = books
           /\ Len(res') = 1
           /\ res'[1].status = 401
           /\ ~Has(res'[1], "book")
           /\ ~Has(res'[1], "books"))]_vars

C7_Witness ==
    /\ req.method = "PUT"
    /\ req.token = "expired"
    /\ IsObjectId(req.id)
    /\ req.id.oid \in IdsOf(books)
    /\ req.body = [title |-> "c"]
    /\ books[1].title = "Ab"
    /\ res = <<Unauthorized>>

-----------------------------------------------------------------------------
(* C8 *)

-----------------------------------------------------------------------------
(* C9 *)

\* C9: an authenticated GET with no id and a query is answered 200 with the
\* stored books whose title or author contains the query as a substring,
\* letter case ignored, and no others, however many they are and whatever
\* page is given.
C9_SearchIsSubstring ==
    (/\ req.method = "GET"
     /\ Authenticated(req)
     /\ ~IdGiven(req.query)
     /\ QueryGiven(req.query))
    => LET hit(b) == \/ ContainsIgnoreCase(b.title, req.query.query)
                     \/ ContainsIgnoreCase(b.author, req.query.query)
       IN res = <<[status |-> 200, books |-> SelectSeq(books, hit)]>>

-----------------------------------------------------------------------------
(* C10 *)

====
